---- MODULE Spec2Model ----
(***************************************************************************)
(* ONICS - Optical Navigation and Interference Control System.             *)
(* A model of src/ONICS.py: the main control flow (argument handling,      *)
(* thread start, restart loop), the three worker functions, the device     *)
(* prober and the log follower, as interleaved steps of Python threads.    *)
(***************************************************************************)
EXTENDS Integers, Sequences, FiniteSets, TLC

\* ---------------------------------------------------------------- bounds
\* Threads ever created for worker functions (thread1..3 and respawns).
MaxUnits == 4
\* Lines ever appended to the log file.
MaxLog == 2

\* ------------------------------------------------------------- constants
Mavproxy == "mavproxy_create_connection"
RunT265 == "run_t265"
RunD4xx == "run_d4xx"
Funcs == {Mavproxy, RunT265, RunD4xx}
Gated == {RunT265, RunD4xx}

\* Lines rs-enumerate-devices can print, and the outputs drawn for one run.
LineT265 == "Intel RealSense T265"
LineD435 == "Intel RealSense D435I"
ToolLines == {LineT265, LineD435}
\* How a run of the tool that could be started ends, and the lines it has
\* printed by then (a tool that exits abnormally is taken to have printed
\* nothing).
ToolStatus == {"ok", "abnormal"}
ToolStdout(status) ==
    IF status = "ok" THEN {{}, {LineT265}, {LineD435}} ELSE {{}}

\* `device_prefix in line` for the lines above.
Contains(line, prefix) ==
    \/ prefix = "T265" /\ line = LineT265
    \/ prefix = "D4" /\ line = LineD435

\* The prefixes run_t265 / run_d4xx pass to is_device_connected.
Prefix(f) == IF f = RunT265 THEN "T265" ELSE "D4"

\* relevant_devices of enumerate_devices.
relevant_devices == {"T265", "D4"}

\* A variant of ErrText in which every handler logs the mavproxy message.
ErrText_Same(f) == "root - ERROR - mavproxy error"

\* The messages the worker functions hand to logging.
ErrText(f) ==
    IF f = Mavproxy THEN "root - ERROR - mavproxy error"
    ELSE IF f = RunT265 THEN "root - ERROR - T265 script error"
    ELSE "root - ERROR - D4XX script error"
WarnText(f) ==
    IF f = RunT265 THEN "root - WARNING - T265 device not detected. Skipping T265 script."
    ELSE "root - WARNING - No D4XX device detected. Skipping D4XX script."
ProbeErrText == "root - ERROR - Error checking for RealSense devices"

\* A line of the log file: the formatted record followed by the terminator.
LogLine(text) == [text |-> text, eol |-> TRUE]
\* line.strip(): the formatted record has no blank at either end, so strip
\* removes the terminator only.
Strip(line) == line.text

VARIABLES
    args,           \* parsed command line
    pcMain,         \* position of the main control flow
    exitCode,       \* process exit status, -1 while running
    report,         \* what enumerate_devices printed
    t265_enabled, d4xx_enabled,
    thread1, thread2, thread3,   \* handles: index into units, 0 = unbound
    threads,        \* the list built by the restart loop
    idx,            \* position of the for loop over threads
    units,          \* every worker thread ever created
    log,            \* the log file
    pcTail, tailPos, seekPos, surfaced   \* publish_logs

vars == <<args, pcMain, exitCode, report, t265_enabled, d4xx_enabled,
          thread1, thread2, thread3, threads, idx, units, log,
          pcTail, tailPos, seekPos, surfaced>>

mainVars == <<args, pcMain, exitCode, report, thread1, thread2, thread3,
              threads, idx>>
tailVars == <<pcTail, tailPos, seekPos, surfaced>>
flagVars == <<t265_enabled, d4xx_enabled>>

ArgSets == [enumerate : BOOLEAN, disable_t265 : BOOLEAN,
            disable_d4xx : BOOLEAN, sik_only : BOOLEAN]

Init ==
    /\ args \in ArgSets
    /\ pcMain = "l126"
    /\ exitCode = -1
    /\ report = "none"
    /\ t265_enabled = TRUE
    /\ d4xx_enabled = TRUE
    /\ thread1 = 0 /\ thread2 = 0 /\ thread3 = 0
    /\ threads = <<>>
    /\ idx = 0
    /\ units = <<>>
    /\ log = <<>>
    /\ pcTail = "none"
    /\ tailPos = 0 /\ seekPos = 0
    /\ surfaced = <<>>

\* ------------------------------------------------------------- helpers
Enabled(f) ==
    IF f = RunT265 THEN t265_enabled
    ELSE IF f = RunD4xx THEN d4xx_enabled
    ELSE TRUE

\* threading.Thread(target=f) followed by start(): the thread is at the
\* first statement of f, which for mavproxy_create_connection is the call
\* that runs the command.  lines is the tool output on which a run loop
\* started the command it is waiting for (the `lines` of
\* is_device_connected), empty otherwise.
NewUnit(f) ==
    [func |-> f, pc |-> IF f = Mavproxy THEN "wait" ELSE "while", lines |-> {}]

\* Thread.is_alive()
is_alive(t) == units[t].pc # "dead"

Live(f) == {u \in DOMAIN units : units[u].func = f /\ units[u].pc # "dead"}

SetUnit(u, r) == units' = [units EXCEPT ![u] = r]

\* logging.error / logging.warning: one line appended to the file.
LogAppend(text) == log' = Append(log, LogLine(text))

\* ----------------------------------------------------- main control flow
\* line 126: if args.enumerate
MainBranch ==
    /\ pcMain = "l126"
    /\ pcMain' = IF args.enumerate THEN "l127" ELSE "l130"
    /\ UNCHANGED <<args, exitCode, report, thread1, thread2, thread3, threads,
                   idx, units, log, flagVars, tailVars>>

\* enumerate_devices() and the end of the script.  subprocess.run without
\* check=True raises no CalledProcessError; an OSError (tool cannot be
\* invoked) is not caught and ends the process with status 1.
enumerate_devices ==
    /\ pcMain = "l127"
    /\ \/ \E st \in ToolStatus : \E out \in ToolStdout(st) :
            /\ report' = IF \E l \in out : \E p \in relevant_devices : Contains(l, p)
                         THEN "devices" ELSE "no devices"
            /\ exitCode' = 0
       \/ /\ report' = "traceback"
          /\ exitCode' = 1
    /\ pcMain' = "exit"
    /\ UNCHANGED <<args, thread1, thread2, thread3, threads, idx, units, log,
                   flagVars, tailVars>>

\* lines 130-137: flag logic
FlagLogic ==
    /\ pcMain = "l130"
    /\ IF args.sik_only
       THEN t265_enabled' = FALSE /\ d4xx_enabled' = FALSE
       ELSE /\ t265_enabled' = IF args.disable_t265 THEN FALSE ELSE t265_enabled
            /\ d4xx_enabled' = IF args.disable_d4xx THEN FALSE ELSE d4xx_enabled
    /\ pcMain' = "l140"
    /\ UNCHANGED <<args, exitCode, report, thread1, thread2, thread3, threads,
                   idx, units, log, tailVars>>

\* lines 140-141: start the log publishing thread
StartLogThread ==
    /\ pcMain = "l140"
    /\ pcTail' = "l108"
    /\ pcMain' = "l147"
    /\ UNCHANGED <<args, exitCode, report, thread1, thread2, thread3, threads,
                   idx, units, log, flagVars, tailPos, seekPos, surfaced>>

\* lines 147-148
StartThread1 ==
    /\ pcMain = "l147"
    /\ units' = Append(units, NewUnit(Mavproxy))
    /\ thread1' = Len(units) + 1
    /\ pcMain' = "l150"
    /\ UNCHANGED <<args, exitCode, report, thread2, thread3, threads, idx, log,
                   flagVars, tailVars>>

\* A variant of StartThread2 that starts the thread without reading the flag.
StartThread2_Unconditional ==
    /\ pcMain = "l150"
    /\ units' = Append(units, NewUnit(RunT265))
    /\ thread2' = Len(units) + 1
    /\ pcMain' = "l154"
    /\ UNCHANGED <<args, exitCode, report, thread1, thread3, threads, idx, log,
                   flagVars, tailVars>>

\* lines 150-152
StartThread2 ==
    /\ pcMain = "l150"
    /\ IF t265_enabled
       THEN /\ units' = Append(units, NewUnit(RunT265))
            /\ thread2' = Len(units) + 1
       ELSE UNCHANGED <<units, thread2>>
    /\ pcMain' = "l154"
    /\ UNCHANGED <<args, exitCode, report, thread1, thread3, threads, idx, log,
                   flagVars, tailVars>>

\* lines 154-156
StartThread3 ==
    /\ pcMain = "l154"
    /\ IF d4xx_enabled
       THEN /\ units' = Append(units, NewUnit(RunD4xx))
            /\ thread3' = Len(units) + 1
       ELSE UNCHANGED <<units, thread3>>
    /\ pcMain' = "l160"
    /\ UNCHANGED <<args, exitCode, report, thread1, thread2, threads, idx, log,
                   flagVars, tailVars>>

\* A variant of BuildThreadsT265 that appends thread2 without reading the
\* flag.
BuildThreadsT265_Unconditional ==
    /\ pcMain = "l160"
    /\ IF thread2 = 0
       THEN /\ pcMain' = "exit" /\ exitCode' = 1 /\ report' = "traceback"
            /\ UNCHANGED threads
       ELSE /\ threads' = <<[thread |-> thread1, func |-> Mavproxy],
                            [thread |-> thread2, func |-> RunT265]>>
            /\ pcMain' = "l163"
            /\ UNCHANGED <<exitCode, report>>
    /\ UNCHANGED <<args, thread1, thread2, thread3, idx, units, log, flagVars,
                   tailVars>>

\* lines 160-162: threads = [(thread1, ...)], then the T265 entry.  Reading
\* an unbound thread2 is a NameError in the main thread.
BuildThreadsT265 ==
    /\ pcMain = "l160"
    /\ IF t265_enabled /\ thread2 = 0
       THEN /\ pcMain' = "exit" /\ exitCode' = 1 /\ report' = "traceback"
            /\ UNCHANGED threads
       ELSE /\ threads' = IF t265_enabled
                          THEN <<[thread |-> thread1, func |-> Mavproxy],
                                 [thread |-> thread2, func |-> RunT265]>>
                          ELSE <<[thread |-> thread1, func |-> Mavproxy]>>
            /\ pcMain' = "l163"
            /\ UNCHANGED <<exitCode, report>>
    /\ UNCHANGED <<args, thread1, thread2, thread3, idx, units, log, flagVars,
                   tailVars>>

\* lines 163-164
BuildThreadsD4xx ==
    /\ pcMain = "l163"
    /\ IF d4xx_enabled /\ thread3 = 0
       THEN /\ pcMain' = "exit" /\ exitCode' = 1 /\ report' = "traceback"
            /\ UNCHANGED <<threads, idx>>
       ELSE /\ threads' = IF d4xx_enabled
                          THEN Append(threads, [thread |-> thread3, func |-> RunD4xx])
                          ELSE threads
            /\ idx' = 1
            /\ pcMain' = "l165"
            /\ UNCHANGED <<exitCode, report>>
    /\ UNCHANGED <<args, thread1, thread2, thread3, units, log, flagVars,
                   tailVars>>

\* A variant of RestartCheck that restarts the hardware-gated workers only.
RestartCheck_GatedOnly ==
    /\ pcMain = "l165"
    /\ IF ~is_alive(threads[idx].thread) /\ threads[idx].func \in Gated
       THEN /\ Len(units) < MaxUnits
            /\ units' = Append(units, NewUnit(threads[idx].func))
       ELSE UNCHANGED units
    /\ IF idx < Len(threads)
       THEN idx' = idx + 1 /\ pcMain' = pcMain
       ELSE idx' = 0 /\ pcMain' = "l160"
    /\ UNCHANGED <<args, exitCode, report, thread1, thread2, thread3,
                   threads, log, flagVars, tailVars>>

\* A variant of RestartCheck in which a restart sets the worker's flag again.
RestartCheck_Reenable ==
    /\ pcMain = "l165"
    /\ IF ~is_alive(threads[idx].thread)
       THEN /\ Len(units) < MaxUnits
            /\ units' = Append(units, NewUnit(threads[idx].func))
            /\ t265_enabled' = (t265_enabled \/ threads[idx].func = RunT265)
            /\ d4xx_enabled' = (d4xx_enabled \/ threads[idx].func = RunD4xx)
       ELSE UNCHANGED <<units, flagVars>>
    /\ IF idx < Len(threads)
       THEN idx' = idx + 1 /\ pcMain' = pcMain
       ELSE idx' = 0 /\ pcMain' = "l160"
    /\ UNCHANGED <<args, exitCode, report, thread1, thread2, thread3,
                   threads, log, tailVars>>

\* lines 165-168, one element of the for loop.  The fresh Thread is bound to
\* the loop variable `thread` only: thread1..thread3 keep their old value.
\* After the last element the pass sleeps (line 169) and the next one begins.
RestartCheck ==
    /\ pcMain = "l165"
    /\ IF ~is_alive(threads[idx].thread)
       THEN /\ Len(units) < MaxUnits
            /\ units' = Append(units, NewUnit(threads[idx].func))
       ELSE UNCHANGED units
    /\ IF idx < Len(threads)
       THEN idx' = idx + 1 /\ pcMain' = pcMain
       ELSE idx' = 0 /\ pcMain' = "l160"
    /\ UNCHANGED <<args, exitCode, report, thread1, thread2, thread3,
                   threads, log, flagVars, tailVars>>

\* ------------------------------------------------- is_device_connected
\* Steps that touch nothing but the thread's own state (scanning the tool's
\* output, entering a branch, starting the command) are taken together with
\* the step of the same thread they follow.
\*
\* The model bounds the log: a failure that will be logged happens only
\* while the file has room for its line and for the lines already due.
LogRoom ==
    Len(log) + Cardinality({u \in DOMAIN units : units[u].pc = "logerr"}) < MaxLog

\* A variant of ScanResult in which any line of output counts as the device.
ScanResult_AnyDevice(out, prefix) == out # {}

\* lines 34-38: the value is_device_connected returns for an output.
ScanResult(out, prefix) == \E line \in out : Contains(line, prefix)

\* lines 31-41, and what the run loop does with the value (lines 82-90 /
\* 96-104).  subprocess.run is called without check=True, so an abnormal
\* exit status raises nothing and the output is scanned all the same; a tool
\* that cannot be invoked raises OSError, which the handler for
\* CalledProcessError (lines 39-41, never entered) does not catch: it leaves
\* is_device_connected and the run loop, and the thread ends.  On True the
\* command is started (lines 84 / 98) and the thread blocks; on False the
\* warning is logged (lines 88 / 102).
is_device_connected(u) ==
    /\ units[u].pc = "probe"
    /\ \/ \E st \in ToolStatus : \E out \in ToolStdout(st) :
            IF ScanResult(out, Prefix(units[u].func))
            THEN /\ SetUnit(u, [units[u] EXCEPT !.pc = "wait", !.lines = out])
                 /\ log' = log
            ELSE /\ LogRoom
                 /\ LogAppend(WarnText(units[u].func))
                 /\ SetUnit(u, [units[u] EXCEPT !.pc = "disable"])
       \/ /\ SetUnit(u, [units[u] EXCEPT !.pc = "dead"])
          /\ log' = log
    /\ UNCHANGED <<mainVars, flagVars, tailVars>>

\* ------------------------------------------------------ worker functions
\* lines 81 / 95: while d4xx_enabled / while t265_enabled
WhileEnabled(u) ==
    /\ units[u].pc = "while"
    /\ SetUnit(u, [units[u] EXCEPT !.pc = IF Enabled(units[u].func)
                                          THEN "probe" ELSE "dead"])
    /\ UNCHANGED <<mainVars, log, flagVars, tailVars>>

\* A variant of AfterCommand in which every worker function returns once its
\* command is over.
AfterCommand_Return(f) == "dead"

\* Where a worker function goes once its command is over and dealt with:
\* mavproxy_create_connection returns, the run loops go back to `while`.
AfterCommand(f) == IF f = Mavproxy THEN "dead" ELSE "while"

\* subprocess.run(..., check=True) returns or raises (lines 69-75 / 84-85 /
\* 98-99).  Status 0: the call returns.  A non-zero status: check=True
\* raises CalledProcessError and the thread enters the handler ("logerr").
\* A command that cannot be started: OSError, which no handler catches, so
\* the thread ends.
CommandOutcomes == {"status 0", "status 1", "OSError"}

CommandExit(u) ==
    /\ units[u].pc = "wait"
    /\ \E o \in CommandOutcomes :
         CASE o = "status 0" ->
                SetUnit(u, [units[u] EXCEPT !.pc = AfterCommand(units[u].func),
                                            !.lines = {}])
           [] o = "status 1" ->
                /\ LogRoom
                /\ SetUnit(u, [units[u] EXCEPT !.pc = "logerr", !.lines = {}])
           [] o = "OSError" ->
                SetUnit(u, [units[u] EXCEPT !.pc = "dead", !.lines = {}])
    /\ UNCHANGED <<mainVars, log, flagVars, tailVars>>

\* lines 76 / 86 / 100: logging.error(...)
LogError(u) ==
    /\ units[u].pc = "logerr"
    /\ LogAppend(ErrText(units[u].func))
    /\ SetUnit(u, [units[u] EXCEPT !.pc = AfterCommand(units[u].func)])
    /\ UNCHANGED <<mainVars, flagVars, tailVars>>

\* A variant of Disable in which the thread clears the other worker's flag.
Disable_Other(u) ==
    /\ units[u].pc = "disable"
    /\ t265_enabled' = IF units[u].func = RunD4xx THEN FALSE ELSE t265_enabled
    /\ d4xx_enabled' = IF units[u].func = RunT265 THEN FALSE ELSE d4xx_enabled
    /\ SetUnit(u, [units[u] EXCEPT !.pc = "dead"])
    /\ UNCHANGED <<mainVars, log, tailVars>>

\* A variant of Disable in which the thread clears both flags.
Disable_Both(u) ==
    /\ units[u].pc = "disable"
    /\ t265_enabled' = FALSE
    /\ d4xx_enabled' = FALSE
    /\ SetUnit(u, [units[u] EXCEPT !.pc = "dead"])
    /\ UNCHANGED <<mainVars, log, tailVars>>

\* lines 89-90 / 103-104: the flag is cleared and the loop left.
Disable(u) ==
    /\ units[u].pc = "disable"
    /\ t265_enabled' = IF units[u].func = RunT265 THEN FALSE ELSE t265_enabled
    /\ d4xx_enabled' = IF units[u].func = RunD4xx THEN FALSE ELSE d4xx_enabled
    /\ SetUnit(u, [units[u] EXCEPT !.pc = "dead"])
    /\ UNCHANGED <<mainVars, log, tailVars>>

mavproxy_create_connection(u) ==
    /\ units[u].func = Mavproxy
    /\ CommandExit(u) \/ LogError(u)

RunLoop(u) ==
    \/ WhileEnabled(u)
    \/ is_device_connected(u)
    \/ CommandExit(u)
    \/ LogError(u)
    \/ Disable(u)

run_t265(u) == units[u].func = RunT265 /\ RunLoop(u)

run_d4xx(u) == units[u].func = RunD4xx /\ RunLoop(u)

\* --------------------------------------------------------- publish_logs
\* A variant of TailSeek that reads the file from its start.
TailSeek_NoSeek ==
    /\ pcTail = "l108"
    /\ tailPos' = 0
    /\ seekPos' = Len(log)
    /\ pcTail' = "l111"
    /\ UNCHANGED <<mainVars, units, log, flagVars, surfaced>>

\* lines 108-109: open the file and seek to its end.
TailSeek ==
    /\ pcTail = "l108"
    /\ tailPos' = Len(log)
    /\ seekPos' = Len(log)
    /\ pcTail' = "l111"
    /\ UNCHANGED <<mainVars, units, log, flagVars, surfaced>>

\* lines 111-115, one pass of `while True`: readline(); a line is printed
\* stripped; without a line the pass sleeps and changes nothing.
TailRead ==
    /\ pcTail = "l111"
    /\ IF tailPos < Len(log)
       THEN /\ surfaced' = Append(surfaced, Strip(log[tailPos + 1]))
            /\ tailPos' = tailPos + 1
       ELSE UNCHANGED <<surfaced, tailPos>>
    /\ UNCHANGED <<mainVars, units, log, flagVars, pcTail, seekPos>>

publish_logs == TailSeek \/ TailRead

Next ==
    \/ MainBranch
    \/ enumerate_devices
    \/ FlagLogic
    \/ StartLogThread
    \/ StartThread1
    \/ StartThread2
    \/ StartThread3
    \/ BuildThreadsT265
    \/ BuildThreadsD4xx
    \/ RestartCheck
    \/ \E u \in DOMAIN units : mavproxy_create_connection(u)
    \/ \E u \in DOMAIN units : run_t265(u)
    \/ \E u \in DOMAIN units : run_d4xx(u)
    \/ publish_logs

Spec == Init /\ [][Next]_vars

\* publish_logs runs in a thread of its own; the interpreter lets every
\* runnable thread run again and again.
FairSpec == Spec /\ WF_vars(publish_logs)

\* The program restricted to the outcomes the run loops handle: no thread
\* of a gated worker is ended by an exception at its probe or its command.
HandledOutcome ==
    \A u \in DOMAIN units :
        units[u].func \in Gated /\ units[u].pc \in {"probe", "wait"} =>
            units'[u].pc # "dead"

HandledNext ==
    \/ MainBranch
    \/ enumerate_devices
    \/ FlagLogic
    \/ StartLogThread
    \/ StartThread1
    \/ StartThread2
    \/ StartThread3
    \/ BuildThreadsT265
    \/ BuildThreadsD4xx
    \/ RestartCheck
    \/ \E u \in DOMAIN units : mavproxy_create_connection(u)
    \/ \E u \in DOMAIN units : run_t265(u) /\ HandledOutcome
    \/ \E u \in DOMAIN units : run_d4xx(u) /\ HandledOutcome
    \/ publish_logs

HandledSpec == Init /\ [][HandledNext]_vars

\* ------------------------------------------------------------ properties
UnitsOf(f) == {u \in DOMAIN units : units[u].func = f}

\* A step in which thread u starts its external command.
Launches(u) == units[u].pc # "wait" /\ units'[u].pc = "wait"

\* C1: for each worker function at most one thread running it is alive, in
\* every state of supervised operation.
C1_AtMostOneLiveUnit == \A f \in Funcs : Cardinality(Live(f)) <= 1

\* C2: for T265 and D4XX, the enabled flag goes from true to false at most
\* once (cleared, it stays cleared), and while it is cleared no thread of
\* that worker starts the external command.
C2_NoLaunchOnceDisabled ==
    [][\A f \in Gated :
         ~Enabled(f) =>
            /\ ~Enabled(f)'
            /\ \A u \in UnitsOf(f) : ~Launches(u)]_vars

\* C3: the telemetry relay is the first entry of the list of every pass of
\* the restart loop, however many mavproxy failures were logged, and the
\* pass that finds thread1 terminated starts a thread running
\* mavproxy_create_connection in that very step.
C3_RelayAlwaysRestarted ==
    [][/\ (pcMain' \in {"l163", "l165"} =>
              /\ Len(threads') >= 1
              /\ threads'[1] = [thread |-> thread1, func |-> Mavproxy])
       /\ (pcMain = "l165" /\ idx = 1 /\ idx' # 1 /\ ~is_alive(thread1) =>
              /\ Len(units') = Len(units) + 1
              /\ units'[Len(units')].func = Mavproxy
              /\ units'[Len(units')].pc # "dead")]_vars

C3_Witness ==
    /\ Len(log) >= 2
    /\ \A i \in DOMAIN log : log[i].text = ErrText(Mavproxy)
    /\ thread1 # 0 /\ ~is_alive(thread1)
    /\ \E u \in Live(Mavproxy) : u # thread1

\* C4: a cleared enabled flag is never set again, by any step of any thread.
C4_DisableMonotone ==
    [][/\ (~t265_enabled => ~t265_enabled')
       /\ (~d4xx_enabled => ~d4xx_enabled')]_vars

C4_Witness ==
    /\ ~args.sik_only /\ ~args.disable_t265 /\ args.disable_d4xx
    /\ ~t265_enabled /\ ~d4xx_enabled
    /\ pcMain = "l165"
    /\ \E u \in Live(Mavproxy) : u # thread1

\* C5: once publish_logs has sought to the end of the file, the lines it has
\* printed are, in order and without repetition, the first lines appended
\* after the seek, and every line appended after the seek is printed
\* eventually.
LinesAfterSeek == SubSeq(log, seekPos + 1, Len(log))

C5_TailFollows ==
    /\ [](pcTail = "l111" =>
            /\ Len(surfaced) <= Len(LinesAfterSeek)
            /\ \A i \in DOMAIN surfaced : surfaced[i] = Strip(LinesAfterSeek[i]))
    /\ \A k \in 1..MaxLog :
         [](pcTail = "l111" /\ Len(LinesAfterSeek) >= k => <>(Len(surfaced) >= k))

C5_Witness ==
    /\ pcTail = "l111"
    /\ Len(surfaced) >= 2
    /\ surfaced[1] # surfaced[2]
    /\ Cardinality({u \in DOMAIN units : units[u].pc # "dead"}) >= 2

\* C6: a worker disabled on the command line (sik-only, disable-t265,
\* disable-d4xx) never gets a thread, at start or from the restart loop, so
\* it never probes and never launches; and when the restart loop is entered
\* for the first time every other worker has been started exactly once.
StartDisabled(f) ==
    \/ f \in Gated /\ args.sik_only
    \/ f = RunT265 /\ args.disable_t265
    \/ f = RunD4xx /\ args.disable_d4xx

C6_DisabledNeverStarted ==
    /\ \A f \in Funcs : StartDisabled(f) => UnitsOf(f) = {}
    /\ (pcMain = "l160" /\ threads = <<>> =>
            \A f \in Funcs : ~StartDisabled(f) => Cardinality(UnitsOf(f)) = 1)

C6_Witness ==
    /\ args.sik_only /\ ~args.disable_t265 /\ ~args.disable_d4xx
    /\ pcMain = "l160" /\ threads # <<>>
    /\ Len(units) >= 3
    /\ UnitsOf(RunT265) = {} /\ UnitsOf(RunD4xx) = {}

\* C7: when a probe reports the device absent, the thread appends its
\* warning, then clears its own flag and ends; these steps leave the other
\* gated worker's flag, every other thread and the handles as they are; a
\* pass of the restart loop that reads the cleared flag leaves the worker
\* out of its list, and keeps the relay and the other worker in it exactly
\* as their state demands.
OtherGated(f) == IF f = RunT265 THEN RunD4xx ELSE RunT265

InThreads(f, l) == \E i \in DOMAIN l : l[i].func = f

AbsentStep(u) ==
    \/ units[u].pc = "probe" /\ units'[u].pc = "disable"
    \/ units[u].pc = "disable" /\ units'[u].pc = "dead"

C7_AbsentFrame ==
    [][/\ \A u \in DOMAIN units :
            LET f == units[u].func IN
            /\ (units[u].pc = "probe" /\ units'[u].pc = "disable" =>
                    /\ log' = Append(log, LogLine(WarnText(f)))
                    /\ UNCHANGED flagVars)
            /\ (units[u].pc = "disable" /\ units'[u] # units[u] =>
                    /\ ~Enabled(f)' /\ units'[u].pc = "dead"
                    /\ Enabled(OtherGated(f))' = Enabled(OtherGated(f))
                    /\ log' = log)
            /\ (AbsentStep(u) =>
                    /\ DOMAIN units' = DOMAIN units
                    /\ \A v \in DOMAIN units : v # u => units'[v] = units[v]
                    /\ UNCHANGED <<thread1, thread2, thread3, threads, idx, pcMain>>)
       /\ (pcMain = "l160" /\ pcMain' = "l163" =>
              (InThreads(RunT265, threads') <=> t265_enabled)
              /\ InThreads(Mavproxy, threads'))
       /\ (pcMain = "l163" /\ pcMain' = "l165" =>
              (InThreads(RunD4xx, threads') <=> d4xx_enabled)
              /\ (InThreads(RunT265, threads') <=> InThreads(RunT265, threads))
              /\ InThreads(Mavproxy, threads'))
       /\ (Len(units') > Len(units) /\ pcMain = "l165" =>
              InThreads(units'[Len(units')].func, threads))]_vars

C7_Witness ==
    /\ ~args.sik_only /\ ~args.disable_t265 /\ ~args.disable_d4xx
    /\ ~t265_enabled /\ d4xx_enabled
    /\ thread2 # 0 /\ ~is_alive(thread2)
    /\ thread3 # 0 /\ units[thread3].pc = "wait"
    /\ units[thread1].pc = "wait"
    /\ pcMain = "l160"
    /\ ~InThreads(RunT265, threads) /\ InThreads(RunD4xx, threads)
    /\ \E i \in DOMAIN log : log[i].text = WarnText(RunT265)

\* C8: a thread whose command exited with a non-zero status does nothing
\* but append the error line of its worker (a text no other worker logs)
\* before it retries or ends; for the relay, thread1 is not alive once that line is written, and the
\* pass of the restart loop that finds it so starts a relay thread.
C8_FailureLogged ==
    [][/\ \A u \in DOMAIN units :
            LET f == units[u].func IN
            /\ (units[u].pc = "logerr" /\ units'[u] # units[u] =>
                    /\ log' = Append(log, LogLine(ErrText(f)))
                    /\ \A g \in Funcs \ {f} : ErrText(g) # ErrText(f)
                    /\ units'[u].pc = AfterCommand(f)
                    /\ (f = Mavproxy => ~is_alive(thread1)'))
            /\ (units[u].pc = "wait" /\ units'[u].pc \in {"while", "dead"} =>
                    log' = log)
       /\ (pcMain = "l165" /\ idx = 1 /\ idx' # 1 /\ ~is_alive(thread1) =>
              /\ Len(units') = Len(units) + 1
              /\ units'[Len(units')] = NewUnit(Mavproxy))]_vars

C8_Witness ==
    /\ \E i \in DOMAIN log : log[i].text = ErrText(Mavproxy)
    /\ \E i \in DOMAIN log : log[i].text = ErrText(RunT265)
    /\ ~is_alive(thread1)
    /\ \E u \in Live(Mavproxy) : u # thread1
    /\ \E u \in Live(RunT265) : units[u].pc = "wait"

\* C9: is_device_connected always returns a boolean to the run loop, which
\* then launches the command (True) or logs its warning (False); when the
\* enumeration tool fails (cannot be invoked, exits abnormally) the value
\* is False and an error line is logged before the warning; in no case does
\* an exception leave the function and end the calling thread.
C9_ProbeTotal ==
    [][\A u \in DOMAIN units :
         units[u].pc = "probe" /\ units'[u] # units[u] =>
            \/ units'[u].pc = "wait" /\ log' = log
            \/ /\ units'[u].pc = "disable"
               /\ \/ log' = Append(log, LogLine(WarnText(units[u].func)))
                  \/ log' = log \o <<LogLine(ProbeErrText),
                                     LogLine(WarnText(units[u].func))>>]_vars

\* C10: with the enumerate flag the program prints the device report and
\* ends with exit code 0; no publish_logs thread, no worker thread and no
\* pass of the restart loop is ever started, whatever the other flags are.
C10_EnumerateOnly ==
    args.enumerate =>
        /\ units = <<>> /\ pcTail = "none" /\ threads = <<>>
        /\ pcMain \in {"l126", "l127", "exit"}
        /\ (pcMain = "exit" => exitCode = 0 /\ report \in {"devices", "no devices"})

\* The handle the main thread holds for a worker function.
Handle(f) ==
    IF f = Mavproxy THEN thread1 ELSE IF f = RunT265 THEN thread2 ELSE thread3

\* A step of the restart loop that starts a thread.
Respawns == pcMain = "l165" /\ Len(units') = Len(units) + 1

\* C11: the step of a pass that finds a worker's recorded thread terminated
\* and starts a fresh one stores the fresh thread as that worker's handle,
\* and a pass starts no thread for a worker while the thread it started last
\* is alive.
C11_HandleReplaced ==
    [][Respawns =>
         \A f \in Funcs :
            units'[Len(units')].func = f =>
                /\ Handle(f)' = Len(units')
                /\ \A u \in UnitsOf(f) : ~is_alive(u)]_vars

\* C12: a probe whose tool could not be run has the effect of "no device
\* found": the thread that leaves the probe without launching is on the
\* device-absent path (still alive, about to clear its flag), it ends only
\* by clearing its flag, and no exception ends it at the probe with the
\* flag still set, which the restart loop would answer with a new thread.
C12_ToolFailureIsAbsent ==
    [][\A u \in DOMAIN units :
         LET f == units[u].func IN
         /\ (units[u].pc = "probe" /\ units'[u].pc \notin {"probe", "wait"} =>
                units'[u].pc = "disable")
         /\ (units[u].pc \in {"probe", "disable"} /\ units'[u].pc = "dead" =>
                ~Enabled(f)')]_vars

\* C13: a thread of any worker, the relay included, ends only on the
\* device-absent path or on reading its flag as false; the exit of its
\* command, with or without error, does not end it.
C13_EndsOnlyByDisable ==
    [][\A u \in DOMAIN units :
         is_alive(u) /\ ~is_alive(u)' =>
            \/ units[u].pc = "disable"
            \/ units[u].pc = "while" /\ ~Enabled(units[u].func)]_vars

\* C17: a thread of a gated worker starts its command only in the step that
\* ends a probe for its own prefix whose output held a matching line, and
\* it enters a probe only from the `while` that read its flag as true.
C17_LaunchOnlyAfterProbe ==
    [][\A u \in DOMAIN units :
         LET f == units[u].func IN
         f \in Gated =>
            /\ (Launches(u) =>
                    /\ units[u].pc = "probe"
                    /\ \E line \in units'[u].lines : Contains(line, Prefix(f)))
            /\ (units[u].pc # "probe" /\ units'[u].pc = "probe" =>
                    units[u].pc = "while" /\ Enabled(f))]_vars

C17_Witness ==
    /\ \E u \in Live(RunT265) :
          units[u].pc = "wait" /\ units[u].lines = {LineT265}
    /\ \E i \in DOMAIN log : log[i].text = ErrText(RunT265)
    /\ \E i \in DOMAIN log : log[i].text = WarnText(RunD4xx)
    /\ ~d4xx_enabled /\ t265_enabled

\* C14: in a thread of a gated worker, the command's exit leads back to the
\* `while` (directly on status 0, through the error line on a non-zero
\* status), the `while` that reads the flag as true leads to a new probe,
\* and no command is started but from a probe; these steps are the thread's
\* own, the main thread takes no part in them.  (A command that could not
\* be started has not exited: that thread ends, see C13.)
C14_RetryInUnit ==
    [][\A u \in DOMAIN units :
         LET f == units[u].func IN
         f \in Gated /\ units'[u] # units[u] =>
            /\ (units[u].pc = "wait" /\ is_alive(u)' =>
                    units'[u].pc \in {"while", "logerr"})
            /\ (units[u].pc = "logerr" => units'[u].pc = "while")
            /\ (units[u].pc = "while" /\ Enabled(f) => units'[u].pc = "probe")
            /\ (units[u].pc \in {"wait", "logerr", "while"} =>
                    /\ UNCHANGED <<mainVars, flagVars>>
                    /\ Len(units') = Len(units))]_vars

C14_Witness ==
    /\ UnitsOf(RunT265) = {thread2}
    /\ units[thread2].pc = "wait"
    /\ Len(log) >= 2
    /\ \A i \in DOMAIN log : log[i].text = ErrText(RunT265)
    /\ pcMain = "l165"

\* C15: each flag has one writer besides the flag logic: a step that changes
\* the T265 (D4XX) flag is the flag logic, taken before any worker thread
\* or the log follower exists, or a step of a run_t265 (run_d4xx) thread;
\* the restart loop, the relay threads and the log follower change neither.
WrittenBy(f) ==
    \/ pcMain = "l130" /\ units = <<>> /\ pcTail = "none"
    \/ /\ UNCHANGED <<mainVars, tailVars>>
       /\ \E u \in UnitsOf(f) :
            /\ units'[u] # units[u]
            /\ \A v \in DOMAIN units : v # u => units'[v] = units[v]

C15_SingleWriter ==
    [][/\ (t265_enabled' # t265_enabled => WrittenBy(RunT265))
       /\ (d4xx_enabled' # d4xx_enabled => WrittenBy(RunD4xx))
       /\ (pcMain' = "l130" => units = <<>> /\ pcTail = "none")]_vars

C15_Witness ==
    /\ ~args.sik_only /\ args.disable_t265 /\ ~args.disable_d4xx
    /\ ~t265_enabled /\ ~d4xx_enabled
    /\ thread3 # 0 /\ ~is_alive(thread3)
    /\ \E i \in DOMAIN log : log[i].text = WarnText(RunD4xx)
    /\ Len(surfaced) >= 1
    /\ pcMain = "l165"

\* C16: in supervised operation the main thread never ends: it raises no
\* exception in any pass of the restart loop, every entry of the list of a
\* pass holds a thread that was started, and a handle is read only for a
\* worker whose thread was started.
InLoop == pcMain \in {"l160", "l163", "l165"}

C16_MainNeverFails ==
    ~args.enumerate =>
        /\ pcMain # "exit" /\ exitCode = -1 /\ report = "none"
        /\ \A i \in DOMAIN threads : threads[i].thread \in DOMAIN units
        /\ (InLoop => /\ thread1 # 0
                       /\ (t265_enabled => thread2 # 0)
                       /\ (d4xx_enabled => thread3 # 0))

C16_Witness ==
    /\ ~args.sik_only /\ args.disable_t265 /\ ~args.disable_d4xx
    /\ thread2 = 0 /\ thread3 # 0
    /\ ~d4xx_enabled
    /\ pcMain = "l160" /\ Len(threads) = 1
    /\ \E u \in Live(Mavproxy) : u # thread1

\* C18: with handled outcomes only, a thread of a gated worker ends only
\* with its flag false, so within the restart loop a worker whose flag is
\* true has its recorded thread alive, and the restart loop starts no
\* thread for a gated worker.
C18_EndsDisabled ==
    [][\A u \in DOMAIN units :
         units[u].func \in Gated /\ is_alive(u) /\ ~is_alive(u)' =>
            ~Enabled(units[u].func)']_vars

C18_EnabledIsAlive ==
    \A f \in Gated : InLoop /\ Enabled(f) => is_alive(Handle(f))

\* C18, the whole claim: the two statements above and their consequence
\* that no step of the restart loop starts a thread for a gated worker.
C18_GatedNeverRespawned ==
    /\ C18_EndsDisabled
    /\ []C18_EnabledIsAlive
    /\ [][Respawns => units'[Len(units')].func \notin Gated]_vars
====
